---- MODULE Spec2Model ----
(***************************************************************************)
(* Account / entitlement record and request gating of the NIH RePORTER     *)
(* Scoop backend: the action-dispatch endpoint (functions/api/search.js)   *)
(* and the Stripe webhook (functions/api/payment/webhook.js), both working *)
(* on the USERS_KV store.  Every request is handled to completion.         *)
(***************************************************************************)
EXTENDS Integers, Sequences, FiniteSets, TLC

\* ------------------------------------------------------------------ bounds
\* The clock takes the instants Instant(0) .. Instant(MaxInstant).
MaxInstant == 1
\* The search collaborator returns result sets of 0 or MaxResults projects.
MaxResults == 2
\* Clock ticks per calendar month (two instants of one month are distinct).
TicksPerMonth == 2

\* ------------------------------------------------------- program constants
MonthsPerYear == 12
FreeMaxSearches == 5
ProMaxSearches == 15
FreeMaxAbstracts == 3
ProMaxAbstracts == 10

\* ------------------------------------------------------------------ inputs
Emails == {"a@x.com"}
\* "" stands for a missing or empty (falsy) field of the request body.
Passwords == {"pw", "other"}
CustomerIds == {"cus_1"}
SubscriptionIds == {"sub_1"}
\* criteria === undefined
Undefined == [undefined |-> TRUE]
Criteria == {[text_search |-> "cancer"]}

VARIABLES
  kv,        \* USERS_KV: email -> stored user record (absent keys have no entry)
  now,       \* the clock read by new Date()
  req,       \* the request handled last, with the time it was handled at
  pre,       \* USERS_KV as that request found it
  resp,      \* the response it got: [status, body]
  nih,       \* fetches of the NIH API it made: payload posted and what came back
  notifier,  \* calls of sendSearchResultsEmail it made, with what they returned
  inflight   \* requests being handled side by side: invocation -> its progress

vars == <<kv, now, req, pre, resp, nih, notifier, inflight>>

\* --------------------------------------------------------- JS object helpers
Empty == [x \in {} |-> x]

SetField(r, f, v) == [g \in (DOMAIN r) \cup {f} |-> IF g = f THEN v ELSE r[g]]

Omit(r, f) == [g \in (DOMAIN r) \ {f} |-> r[g]]

Has(r, f) == f \in DOMAIN r

\* !x for the string fields of the request body
Falsy(s) == s = ""

\* ------------------------------------------------------------------- clock
TicksPerYear == TicksPerMonth * MonthsPerYear

\* Instants at which requests arrive: the start of January, the start of
\* February, the start of next January and one tick later, and so on.
InstantOffsets == <<0, TicksPerMonth, TicksPerYear, TicksPerYear + 1>>

Instant(k) == (k \div 4) * 2 * TicksPerYear + InstantOffsets[(k % 4) + 1]

Instants == {Instant(k) : k \in 0..MaxInstant}

getMonth(t) == (t \div TicksPerMonth) % MonthsPerYear

getFullYear(t) == t \div TicksPerYear

\* ----------------------------------------------------------------- KV store
KvGet(store, key) == IF key \in DOMAIN store THEN <<store[key]>> ELSE <<>>

KvPut(store, key, value) ==
  [k \in (DOMAIN store) \cup {key} |-> IF k = key THEN value ELSE store[k]]

\* ------------------------------------------------------------ password hash
hashPassword(password) == <<"sha256", password>>

\* the promise of verifyPassword tested without await: always truthy
verifyPasswordUnawaited(password, hash) == TRUE

verifyPassword(password, hash) == hashPassword(password) = hash

\* ---------------------------------------------------------------- responses
Json(status, body) == [status |-> status, body |-> body]

\* the whole stored record returned
safeUserDataLeaky(userData) == userData

safeUserData(userData) == Omit(userData, "password_hash")

Result(store, response, posted, calls) ==
  [kv |-> store, resp |-> response, nih |-> posted, notifier |-> calls]

\* ------------------------------------------------------------ handleRegister
\* existingUser is truthy
\* existingUser compared with true instead of tested for truthiness
userExistsNever(store, email) == FALSE

userExists(store, email) == KvGet(store, email) # <<>>

\* every new account starts on the paid plan
newUserActive(email, password, t) ==
  [email |-> email,
   password_hash |-> hashPassword(password),
   subscription_status |-> "active",
   monthly_searches |-> 0,
   created_at |-> t,
   last_reset |-> t]

newUser(email, password, t) ==
  [email |-> email,
   password_hash |-> hashPassword(password),
   subscription_status |-> "free",
   monthly_searches |-> 0,
   created_at |-> t,
   last_reset |-> t]

handleRegister(store, t, email, password) ==
  IF Falsy(email) \/ Falsy(password)
  THEN Result(store, Json(400, [error |-> "Email and password required"]), <<>>, <<>>)
  ELSE IF userExists(store, email)
  THEN Result(store, Json(400, [error |-> "User already exists"]), <<>>, <<>>)
  ELSE LET userData == newUser(email, password, t)
       IN Result(KvPut(store, email, userData),
                 Json(200, [success |-> TRUE,
                            message |-> "Registration successful",
                            user |-> safeUserData(userData)]),
                 <<>>, <<>>)

\* --------------------------------------------------------------- handleLogin
\* the counter is reset at every login
needsResetAlways(t, lastReset) == TRUE

needsReset(t, lastReset) ==
  \/ getMonth(t) # getMonth(lastReset)
  \/ getFullYear(t) # getFullYear(lastReset)

\* the answer the other handlers give for an unknown email
unknownUserResponseNotFound == Json(404, [error |-> "User not found"])

unknownUserResponse == Json(401, [error |-> "Invalid credentials"])

wrongPasswordResponse == Json(401, [error |-> "Invalid credentials"])

handleLogin(store, t, email, password) ==
  IF Falsy(email) \/ Falsy(password)
  THEN Result(store, Json(400, [error |-> "Email and password required"]), <<>>, <<>>)
  ELSE IF KvGet(store, email) = <<>>
  THEN Result(store, unknownUserResponse, <<>>, <<>>)
  ELSE LET userData == KvGet(store, email)[1]
       IN IF ~verifyPassword(password, userData.password_hash)
          THEN Result(store, wrongPasswordResponse, <<>>, <<>>)
          ELSE LET rolled == needsReset(t, userData.last_reset)
                   updated == IF rolled
                              THEN [userData EXCEPT !.monthly_searches = 0,
                                                    !.last_reset = t]
                              ELSE userData
               IN Result(IF rolled THEN KvPut(store, email, updated) ELSE store,
                         Json(200, [success |-> TRUE,
                                    message |-> "Login successful",
                                    user |-> safeUserData(updated)]),
                         <<>>, <<>>)

\* -------------------------------------------------- sendSearchResultsEmail
\* env: [config: BREVO_API_KEY and SENDER_EMAIL are set,
\*       account: "ok" | "rejected"   (GET /v3/account),
\*       send:    "ok" | "rejected"]  (POST /v3/smtp/email)
MailEnvs ==
  {[config |-> FALSE, account |-> "ok", send |-> "ok"],
   [config |-> TRUE, account |-> "rejected", send |-> "ok"],
   [config |-> TRUE, account |-> "ok", send |-> "rejected"],
   [config |-> TRUE, account |-> "ok", send |-> "ok"]}

sendSearchResultsEmail(env, email, projects, criteria) ==
  IF ~env.config THEN FALSE
  ELSE IF env.account # "ok" THEN FALSE
  ELSE env.send = "ok"

\* One call of sendSearchResultsEmail: its arguments, the record the store
\* held for the addressee when it was made, and what it returned.
NotifierCall(store, email, projects, criteria, returned) ==
  [to |-> email, projects |-> projects, criteria |-> criteria,
   stored |-> KvGet(store, email), returned |-> returned]

\* -------------------------------------------------------------- handleSearch
Projects(n) == [i \in 1..n |-> [project_title |-> i]]

\* What fetch() of the NIH API yields: a transport error, a non-2xx response,
\* or a 2xx response whose JSON body may or may not carry a results array.
NihOutcomes ==
  {[kind |-> "unreachable"], [kind |-> "status", ok |-> FALSE, status |-> 500, data |-> Empty],
   [kind |-> "status", ok |-> TRUE, status |-> 200, data |-> Empty]}
  \cup {[kind |-> "status", ok |-> TRUE, status |-> 200,
         data |-> [results |-> Projects(n)]] : n \in {0, MaxResults}}

isFreeTier(userData) == userData.subscription_status # "active"

maxSearches(userData) ==
  IF isFreeTier(userData) THEN FreeMaxSearches ELSE ProMaxSearches

maxAbstracts(userData) ==
  IF isFreeTier(userData) THEN FreeMaxAbstracts ELSE ProMaxAbstracts

\* the limit compared with > instead of >=
overLimitOffByOne(userData) ==
  userData.monthly_searches > maxSearches(userData)

overLimit(userData) == userData.monthly_searches >= maxSearches(userData)

limitMessage(userData) ==
  IF isFreeTier(userData) THEN "Free users get 5 searches/month"
                          ELSE "Pro users get 15 searches/month"

searchCriteria(criteria) ==
  IF Has(criteria, "text_search") /\ ~Falsy(criteria.text_search)
  THEN SetField(Omit(criteria, "text_search"), "advanced_text_search",
                [operator |-> "and",
                 search_field |-> "projecttitle,terms,abstracttext",
                 search_text |-> criteria.text_search])
  ELSE criteria

nihPayload(userData, criteria) ==
  [criteria |-> searchCriteria(criteria),
   sort_field |-> "project_start_date",
   sort_order |-> "desc",
   offset |-> 0,
   limit |-> maxAbstracts(userData)]

\* a field the NIH body does not have is read: always the empty list
nihProjectsDropped(outcome) ==
  IF Has(outcome.data, "projects") THEN outcome.data.projects ELSE <<>>

nihProjects(outcome) ==
  IF Has(outcome.data, "results") THEN outcome.data.results ELSE <<>>

\* nihResponse.ok not tested
nihOkUnchecked(outcome) == outcome.kind = "status"

\* the fetch resolved and nihResponse.ok
nihOk(outcome) == outcome.kind = "status" /\ outcome.ok

\* the search is counted twice
searchCountedTwice(userData) ==
  [userData EXCEPT !.monthly_searches = userData.monthly_searches + 2]

searchCounted(userData) ==
  [userData EXCEPT !.monthly_searches = userData.monthly_searches + 1]

searchFailed(store, posted, message) ==
  Result(store, Json(500, [error |-> "Search failed: " \o message]), posted, <<>>)

\* a failed delivery reported as a failed search
emailFailedResponseError(userData, projects) ==
  Json(500, [error |-> "Search failed: Email delivery failed"])

\* success, with a warning: the email was not delivered
emailFailedResponse(userData, projects) ==
  Json(200, [success |-> TRUE,
             message |-> "Search completed! " \o ToString(Len(projects))
               \o " results found (email delivery failed - please check your email configuration)",
             user |-> safeUserData(userData),
             results_count |-> Len(projects),
             warning |-> "Email delivery failed"])

emailSentResponse(userData, projects) ==
  Json(200, [success |-> TRUE,
             message |-> "Search completed! " \o ToString(Len(projects))
               \o " results sent to your email",
             user |-> safeUserData(userData),
             results_count |-> Len(projects)])

handleSearch(store, t, email, criteria, outcome, mailEnv) ==
  IF Falsy(email) \/ criteria = Undefined
  THEN Result(store, Json(400, [error |-> "Email and search criteria required"]),
              <<>>, <<>>)
  ELSE IF KvGet(store, email) = <<>>
  THEN Result(store, Json(404, [error |-> "User not found"]), <<>>, <<>>)
  ELSE LET userData == KvGet(store, email)[1]
           posted == <<[payload |-> nihPayload(userData, criteria),
                        outcome |-> outcome]>>
       IN IF overLimit(userData)
          THEN Result(store,
                      Json(429, [error |-> "Search limit reached. "
                                             \o limitMessage(userData)
                                             \o ". Upgrade for more!"]),
                      <<>>, <<>>)
          ELSE IF outcome.kind = "unreachable"
          THEN searchFailed(store, posted, "fetch failed")
          ELSE IF ~nihOk(outcome)
          THEN searchFailed(store, posted, "NIH API error: " \o ToString(outcome.status))
          ELSE LET projects == nihProjects(outcome)
                   counted == searchCounted(userData)
                   saved == KvPut(store, email, counted)
                   emailSent == sendSearchResultsEmail(mailEnv, email, projects,
                                                       searchCriteria(criteria))
                   calls == <<NotifierCall(saved, email, projects,
                                           searchCriteria(criteria), emailSent)>>
               IN IF ~emailSent
                  THEN Result(saved, emailFailedResponse(counted, projects),
                              posted, calls)
                  ELSE Result(saved, emailSentResponse(counted, projects),
                              posted, calls)

\* ------------------------------------------------------------- handleUpgrade
\* env: [config: STRIPE_SECRET_KEY and STRIPE_PRICE_ID are set,
\*       stripe: "ok" | "rejected" | "unreachable"]  (POST /v1/checkout/sessions)
StripeEnvs ==
  {[config |-> FALSE, stripe |-> "ok"], [config |-> TRUE, stripe |-> "ok"],
   [config |-> TRUE, stripe |-> "rejected"],
   [config |-> TRUE, stripe |-> "unreachable"]}

\* the account is marked active as soon as the checkout session is created
handleUpgradeActivates(store, email, env) ==
  IF ~env.config
  THEN Result(store, Json(500, [error |-> "Payment configuration missing"]),
              <<>>, <<>>)
  ELSE IF env.stripe # "ok"
  THEN Result(store, Json(500, [error |-> "Upgrade failed: " \o "fetch failed"]),
              <<>>, <<>>)
  ELSE Result(IF KvGet(store, email) = <<>> THEN store
              ELSE KvPut(store, email,
                         SetField(store[email], "subscription_status", "active")),
              Json(200, [success |-> TRUE, checkout_url |-> "https://checkout.stripe.com/" \o email]),
              <<>>, <<>>)

handleUpgrade(store, email, env) ==
  IF ~env.config
  THEN Result(store, Json(500, [error |-> "Payment configuration missing"]),
              <<>>, <<>>)
  ELSE IF env.stripe = "unreachable"
  THEN Result(store, Json(500, [error |-> "Upgrade failed: " \o "fetch failed"]),
              <<>>, <<>>)
  ELSE IF env.stripe = "rejected"
  THEN Result(store,
              Json(500, [error |-> "Upgrade failed: "
                                     \o "Payment session creation failed"]),
              <<>>, <<>>)
  ELSE Result(store,
              Json(200, [success |-> TRUE, checkout_url |-> "https://checkout.stripe.com/" \o email]),
              <<>>, <<>>)

\* --------------------------------------------------------------- handleReset
\* the record is rebuilt with the defaults of a new account
handleResetToDefaults(store, t, email) ==
  IF KvGet(store, email) = <<>>
  THEN Result(store, Json(404, [error |-> "User not found"]), <<>>, <<>>)
  ELSE LET userData == [KvGet(store, email)[1] EXCEPT !.monthly_searches = 0,
                                                      !.last_reset = t,
                                                      !.subscription_status = "free"]
       IN Result(KvPut(store, email, userData),
                 Json(200, [success |-> TRUE,
                            message |-> "Search counter reset successfully",
                            user |-> safeUserData(userData)]),
                 <<>>, <<>>)

handleReset(store, t, email) ==
  IF KvGet(store, email) = <<>>
  THEN Result(store, Json(404, [error |-> "User not found"]), <<>>, <<>>)
  ELSE LET userData == [KvGet(store, email)[1] EXCEPT !.monthly_searches = 0,
                                                      !.last_reset = t]
       IN Result(KvPut(store, email, userData),
                 Json(200, [success |-> TRUE,
                            message |-> "Search counter reset successfully",
                            user |-> safeUserData(userData)]),
                 <<>>, <<>>)

\* ------------------------------------------------------------ Stripe webhook
\* session.customer_email || session.metadata?.user_email
customerEmail(session) ==
  IF ~Falsy(session.customer_email) THEN session.customer_email
  ELSE session.metadata_user_email

\* the upgrade also starts a fresh quota period
activateFreshQuota(userData, t, session) ==
  SetField(SetField(SetField(SetField(SetField(userData,
    "subscription_status", "active"),
    "stripe_customer_id", session.customer),
    "subscription_id", session.subscription),
    "upgraded_at", t),
    "monthly_searches", 0)

\* the plan is switched but the payment ids are not recorded
activateNoIds(userData, t, session) ==
  SetField(SetField(userData,
    "subscription_status", "active"),
    "upgraded_at", t)

activate(userData, t, session) ==
  SetField(SetField(SetField(SetField(userData,
    "subscription_status", "active"),
    "stripe_customer_id", session.customer),
    "subscription_id", session.subscription),
    "upgraded_at", t)

\* a confirmation for an unknown email creates the record
handleCheckoutCompletedUpsert(store, t, session) ==
  IF Falsy(customerEmail(session)) THEN store
  ELSE LET userData == IF KvGet(store, customerEmail(session)) = <<>>
                       THEN newUser(customerEmail(session), "", t)
                       ELSE KvGet(store, customerEmail(session))[1]
       IN KvPut(store, customerEmail(session), activate(userData, t, session))

handleCheckoutCompleted(store, t, session) ==
  IF Falsy(customerEmail(session)) THEN store
  ELSE IF KvGet(store, customerEmail(session)) = <<>> THEN store
  ELSE LET userData == KvGet(store, customerEmail(session))[1]
       IN KvPut(store, customerEmail(session), activate(userData, t, session))

\* a paid invoice also starts a fresh quota period
handlePaymentSucceededFreshQuota(store, t, invoice) ==
  IF Falsy(invoice.customer_email) THEN store
  ELSE IF KvGet(store, invoice.customer_email) = <<>> THEN store
  ELSE LET userData == KvGet(store, invoice.customer_email)[1]
           paid == SetField(SetField(SetField(userData,
                     "subscription_status", "active"),
                     "last_payment", t),
                     "monthly_searches", 0)
       IN KvPut(store, invoice.customer_email, paid)

handlePaymentSucceeded(store, t, invoice) ==
  IF Falsy(invoice.customer_email) THEN store
  ELSE IF KvGet(store, invoice.customer_email) = <<>> THEN store
  ELSE LET userData == KvGet(store, invoice.customer_email)[1]
           paid == SetField(SetField(userData, "subscription_status", "active"),
                            "last_payment", t)
       IN KvPut(store, invoice.customer_email, paid)

\* the cancelled subscription's account goes back to the free plan
handleSubscriptionCancelledDowngrades(store, subscription) ==
  [k \in DOMAIN store |->
     IF Has(store[k], "subscription_id") /\ store[k].subscription_id = subscription.id
     THEN SetField(store[k], "subscription_status", "cancelled")
     ELSE store[k]]

handleSubscriptionCancelled(store, subscription) == store

Sessions ==
  [customer_email : Emails \cup {""}, metadata_user_email : Emails \cup {""},
   customer : CustomerIds, subscription : SubscriptionIds]

Invoices == [customer_email : Emails \cup {""}, subscription : SubscriptionIds]

Subscriptions == [id : SubscriptionIds]

Payloads ==
  [type : {"checkout.session.completed"}, object : Sessions]
  \cup [type : {"invoice.payment_succeeded"}, object : Invoices]
  \cup [type : {"customer.subscription.deleted"}, object : Subscriptions]
  \cup [type : {"charge.refunded"}, object : Subscriptions]

webhook(store, t, payload) ==
  LET stored ==
        IF payload.type = "checkout.session.completed"
        THEN handleCheckoutCompleted(store, t, payload.object)
        ELSE IF payload.type = "invoice.payment_succeeded"
        THEN handlePaymentSucceeded(store, t, payload.object)
        ELSE IF payload.type = "customer.subscription.deleted"
        THEN handleSubscriptionCancelled(store, payload.object)
        ELSE store
  IN Result(stored, Json(200, [received |-> TRUE]), <<>>, <<>>)

\* The body of the webhook request is not JSON.
webhookFailed == Json(400, [error |-> "Webhook failed"])

\* ----------------------------------------- onRequest of the dispatch endpoint
\* Requests that reach no handler: a CORS preflight, a method other than POST,
\* a body that is not JSON, an action that is none of the five.
Rejections == {"OPTIONS", "GET", "bad_json", "bad_action"}

onRequestRejects(kind) ==
  IF kind = "OPTIONS" THEN [status |-> 200, body |-> Empty]
  ELSE IF kind = "GET" THEN Json(405, [error |-> "Use POST method"])
  ELSE IF kind = "bad_json" THEN Json(500, [error |-> "Internal server error"])
  ELSE Json(400, [error |-> "Invalid action"])

\* The email a webhook payload is about ("" when it names none).
payloadEmail(payload) ==
  IF payload.type = "checkout.session.completed" THEN customerEmail(payload.object)
  ELSE IF payload.type = "invoice.payment_succeeded" THEN payload.object.customer_email
  ELSE ""

payloadIds(payload) ==
  IF payload.type = "checkout.session.completed"
  THEN <<payload.object.customer, payload.object.subscription>>
  ELSE <<>>

\* ------------------------------------------------ requests side by side
\* Two invocations of the handlers may be in progress at once.
Invocations == {"first", "second"}

Idle == [stage |-> "idle"]

NoneInFlight == [i \in Invocations |-> Idle]

\* ------------------------------------------------------------- specification
\* What a request carries: the fields of the dispatch body, or the type and
\* the customer email of a webhook event; ids are the customer and
\* subscription ids of a checkout session.
Request(action, email, password, criteria, ids) ==
  [action |-> action, email |-> email, password |-> password,
   criteria |-> criteria, ids |-> ids, at |-> now]

Init ==
  /\ kv = Empty
  /\ now = Instant(0)
  /\ req = Request("none", "", "", Undefined, <<>>)
  /\ pre = Empty
  /\ resp = Json(0, Empty)
  /\ nih = <<>>
  /\ notifier = <<>>
  /\ inflight = NoneInFlight

\* One request handled to completion: result is what its handler computes.
Apply(request, result) ==
  \E r \in {result} :
    /\ req' = request
    /\ pre' = kv
    /\ kv' = r.kv
    /\ resp' = r.resp
    /\ nih' = r.nih
    /\ notifier' = r.notifier
    /\ UNCHANGED <<now, inflight>>

Register ==
  \E email \in Emails \cup {""}, password \in Passwords \cup {""} :
    Apply(Request("register", email, password, Undefined, <<>>),
          handleRegister(kv, now, email, password))

Login ==
  \E email \in Emails \cup {""}, password \in Passwords \cup {""} :
    Apply(Request("login", email, password, Undefined, <<>>),
          handleLogin(kv, now, email, password))

\* The collaborators are described only as far as a search reaches them: the
\* NIH API when the request carries email and criteria, the notifier after a
\* completed NIH round trip.
IdleOutcome == [kind |-> "unreachable"]

IdleMailEnv == [config |-> FALSE, account |-> "ok", send |-> "ok"]

NihOutcomesFor(email, criteria) ==
  IF Falsy(email) \/ criteria = Undefined THEN {IdleOutcome} ELSE NihOutcomes

MailEnvsFor(outcome) == IF nihOk(outcome) THEN MailEnvs ELSE {IdleMailEnv}

Search ==
  \E email \in Emails \cup {""}, criteria \in Criteria \cup {Undefined} :
    \E outcome \in NihOutcomesFor(email, criteria) :
      \E mailEnv \in MailEnvsFor(outcome) :
        Apply(Request("search", email, "", criteria, <<>>),
              handleSearch(kv, now, email, criteria, outcome, mailEnv))

Upgrade ==
  \E email \in Emails, env \in StripeEnvs :
    Apply(Request("upgrade", email, "", Undefined, <<>>),
          handleUpgrade(kv, email, env))

Reset ==
  \E email \in Emails :
    Apply(Request("reset", email, "", Undefined, <<>>),
          handleReset(kv, now, email))

Webhook ==
  \E payload \in Payloads :
    Apply(Request(payload.type, payloadEmail(payload), "", Undefined,
                  payloadIds(payload)),
          webhook(kv, now, payload))

WebhookRejects ==
  Apply(Request("webhook_bad_json", "", "", Undefined, <<>>),
        Result(kv, webhookFailed, <<>>, <<>>))

Rejects ==
  \E kind \in Rejections :
    Apply(Request(kind, "", "", Undefined, <<>>),
          Result(kv, onRequestRejects(kind), <<>>, <<>>))

Advance ==
  /\ \E t \in Instants : t > now /\ now' = t
  /\ UNCHANGED <<kv, req, pre, resp, nih, notifier, inflight>>

Next ==
  \/ Register
  \/ Login
  \/ Search
  \/ Upgrade
  \/ Reset
  \/ Webhook
  \/ WebhookRejects
  \/ Rejects
  \/ Advance

Spec == Init /\ [][Next]_vars

\* ------------------------------------------- overlapping get / put of requests
\* Stores that requests handled to completion leave behind: an account
\* registered at the first instant, possibly upgraded by a checkout
\* confirmation, after n completed searches.
Registered(email, password) == handleRegister(Empty, Instant(0), email, password).kv

Upgraded(store, email) ==
  handleCheckoutCompleted(store, Instant(0),
    [customer_email |-> email, metadata_user_email |-> "",
     customer |-> CHOOSE c \in CustomerIds : TRUE,
     subscription |-> CHOOSE c \in SubscriptionIds : TRUE])

RECURSIVE Searched(_, _, _)
Searched(store, email, n) ==
  IF n = 0 THEN store
  ELSE handleSearch(Searched(store, email, n - 1), Instant(0), email,
                    CHOOSE c \in Criteria : TRUE,
                    [kind |-> "status", ok |-> TRUE, status |-> 200,
                     data |-> [results |-> Projects(MaxResults)]],
                    [config |-> TRUE, account |-> "ok", send |-> "ok"]).kv

\* ... with no search yet, one search left, or none left.
Used(store) ==
  {Searched(store, e, n) :
     e \in DOMAIN store,
     n \in {0, maxSearches(store[CHOOSE k \in DOMAIN store : TRUE]) - 1,
            maxSearches(store[CHOOSE k \in DOMAIN store : TRUE])}}

SettledStores ==
  {Empty} \cup
  UNION {Used(Registered(e, p)) \cup Used(Upgraded(Registered(e, p), e)) :
           e \in Emails, p \in Passwords}

\* The requests whose handlers read the store: the body of a dispatch request,
\* or the payload of a webhook event about an email.
Calls ==
  {[request |-> Request(a, e, p, Undefined, <<>>), payload |-> Undefined] :
     a \in {"register", "login"}, e \in Emails, p \in Passwords}
  \cup {[request |-> Request("search", e, "", c, <<>>), payload |-> Undefined] :
          e \in Emails, c \in Criteria}
  \cup {[request |-> Request("reset", e, "", Undefined, <<>>), payload |-> Undefined] :
          e \in Emails}
  \cup {[request |-> Request(p.type, payloadEmail(p), "", Undefined, payloadIds(p)),
         payload |-> p] :
          p \in {q \in Payloads : payloadEmail(q) # ""}}

\* The handler of a call, run on the store its get returned.
Handle(call, store, t, outcome, mailEnv) ==
  IF call.request.action = "register"
  THEN handleRegister(store, t, call.request.email, call.request.password)
  ELSE IF call.request.action = "login"
  THEN handleLogin(store, t, call.request.email, call.request.password)
  ELSE IF call.request.action = "search"
  THEN handleSearch(store, t, call.request.email, call.request.criteria,
                    outcome, mailEnv)
  ELSE IF call.request.action = "reset"
  THEN handleReset(store, t, call.request.email)
  ELSE webhook(store, t, call.payload)

\* the handler reads the record again when it is about to put
AsReadAtPut(found, current) == current

\* Between its get and its put a handler works on the record the get returned,
\* whatever the store holds by then.
AsRead(found, current) == found

\* Handlers that put whenever their get found a record; the others put only
\* a record they changed.
PutsAlways == {"reset", "checkout.session.completed", "invoice.payment_succeeded"}

\* The record the handler passes to USERS_KV.put: <<>> when it returns before
\* its put.
PutCall(request, found, result) ==
  IF request.email \notin DOMAIN result.kv THEN <<>>
  ELSE IF result.kv # found \/ request.action \in PutsAlways
  THEN <<result.kv[request.email]>>
  ELSE <<>>

\* Another invocation is between its get and its put.
Overlapping(i) == \E j \in Invocations \ {i} : inflight[j].stage = "read"

\* The await of USERS_KV.get: the invocation keeps what the store held.
Get(i) ==
  /\ inflight[i].stage = "idle"
  /\ \E call \in Calls :
       inflight' =
         [j \in Invocations |->
            IF j = i
            THEN [stage |-> "read", request |-> call.request,
                  payload |-> call.payload, found |-> kv,
                  overlap |-> Overlapping(i)]
            ELSE IF inflight[j].stage = "read"
            THEN [inflight[j] EXCEPT !.overlap = TRUE]
            ELSE inflight[j]]
  /\ UNCHANGED <<kv, now, req, pre, resp, nih, notifier>>

\* The rest of the handler: its checks, the collaborators it calls, its put of
\* the whole record (when it reaches it) and its response.
Put(i) ==
  /\ inflight[i].stage = "read"
  /\ \E outcome \in NihOutcomesFor(inflight[i].request.email,
                                   inflight[i].request.criteria) :
       \E mailEnv \in MailEnvsFor(outcome) :
         \E r \in {Handle(inflight[i], AsRead(inflight[i].found, kv), now,
                          outcome, mailEnv)} :
           \E put \in {PutCall(inflight[i].request,
                               AsRead(inflight[i].found, kv), r)} :
             /\ kv' = IF put = <<>> THEN kv
                      ELSE KvPut(kv, inflight[i].request.email, put[1])
             /\ inflight' =
                  [inflight EXCEPT ![i] =
                     [stage |-> "done", request |-> inflight[i].request,
                      found |-> inflight[i].found,
                      overlap |-> inflight[i].overlap,
                      put |-> put, resp |-> r.resp, notifier |-> r.notifier]]
  /\ UNCHANGED <<now, req, pre, resp, nih, notifier>>

\* Two requests arrive at a settled store, at any instant from the first on;
\* pre keeps the store as they found it.
InitOverlap ==
  /\ kv \in SettledStores
  /\ now \in Instants
  /\ req = Request("none", "", "", Undefined, <<>>)
  /\ pre = kv
  /\ resp = Json(0, Empty)
  /\ nih = <<>>
  /\ notifier = <<>>
  /\ inflight = NoneInFlight

NextOverlap == \E i \in Invocations : Get(i) \/ Put(i)

SpecOverlap == InitOverlap /\ [][NextOverlap]_vars

\* ------------------------------------- search bodies with fields of their own
\* Fields a caller may add to the body of a search request: the ones the
\* ungated passthrough (src/search.js) honours.
Overrides ==
  {Empty,
   [limit |-> 100],
   [limit |-> 100, offset |-> 25, sort_field |-> "award_amount", sort_order |-> "asc"]}

\* Criteria that carry such fields themselves.
BodyCriteria ==
  Criteria \cup {SetField(SetField(c, "limit", 100), "offset", 25) : c \in Criteria}

\* The body of a search request: action, email, criteria and the fields of o.
Body(o, e, c) ==
  [f \in {"action", "email", "criteria"} \cup DOMAIN o |->
     IF f = "action" THEN "search"
     ELSE IF f = "email" THEN e
     ELSE IF f = "criteria" THEN c
     ELSE o[f]]

SearchBodies == {Body(o, e, c) : o \in Overrides, e \in Emails, c \in BodyCriteria}

\* limit, offset and sort of the body are copied into the payload, as the
\* ungated passthrough does
onRequestSearchPassthrough(store, t, body, outcome, mailEnv) ==
  LET r == handleSearch(store, t, body.email, body.criteria, outcome, mailEnv)
      own == (DOMAIN body) \cap {"limit", "offset", "sort_field", "sort_order"}
  IN [r EXCEPT !.nih =
        [k \in DOMAIN r.nih |->
           [r.nih[k] EXCEPT !.payload =
              [f \in DOMAIN r.nih[k].payload |->
                 IF f \in own THEN body[f] ELSE r.nih[k].payload[f]]]]]

\* const { action, email, password, criteria } = body; case 'search'
onRequestSearch(store, t, body, outcome, mailEnv) ==
  handleSearch(store, t, body.email, body.criteria, outcome, mailEnv)

\* Searches, one at a time, of a settled store; req also keeps the body.
InitBody ==
  /\ kv \in SettledStores
  /\ now \in Instants
  /\ req = Request("none", "", "", Undefined, <<>>)
  /\ pre = kv
  /\ resp = Json(0, Empty)
  /\ nih = <<>>
  /\ notifier = <<>>
  /\ inflight = NoneInFlight

SearchBody ==
  \E body \in SearchBodies :
    \E outcome \in NihOutcomes :
      \E mailEnv \in MailEnvsFor(outcome) :
        \E r \in {onRequestSearch(kv, now, body, outcome, mailEnv)} :
          /\ req' = SetField(Request("search", body.email, "", body.criteria, <<>>),
                             "body", body)
          /\ pre' = kv
          /\ kv' = r.kv
          /\ resp' = r.resp
          /\ nih' = r.nih
          /\ notifier' = r.notifier
          /\ UNCHANGED <<now, inflight>>

NextBody == SearchBody

SpecBody == InitBody /\ [][NextBody]_vars

\* ================================================================== claims
\* Vocabulary of the specification, stated apart from the handlers.
Tier(userData) == IF userData.subscription_status = "active" THEN "PRO" ELSE "FREE"

max_searches_per_month(tier) ==
  IF tier = "PRO" THEN ProMaxSearches ELSE FreeMaxSearches

\* The last request was this action, with every field the action requires.
Handled(action) ==
  /\ req.action = action
  /\ req.email # ""
  /\ action \in {"register", "login"} => req.password # ""
  /\ action = "search" => req.criteria # Undefined

\* ... and the store held an account for its email.
HandledFor(action) == Handled(action) /\ req.email \in DOMAIN pre

\* C1: a search on an existing account, with email and criteria supplied, is
\* rejected with 429 (quota exceeded) exactly when the stored count has reached
\* the limit of the stored tier (5 for FREE, 15 for PRO), and a rejected search
\* leaves the store as it was.
C1_QuotaGate ==
  HandledFor("search") =>
    /\ (resp.status = 429) <=>
         (pre[req.email].monthly_searches >=
            max_searches_per_month(Tier(pre[req.email])))
    /\ (resp.status = 429) => (kv = pre)

\* A FREE account at count 5 has just been refused a search.
C1_Witness ==
  /\ HandledFor("search")
  /\ resp.status = 429
  /\ Tier(kv[req.email]) = "FREE"
  /\ kv[req.email].monthly_searches = FreeMaxSearches

\* last lies in an earlier calendar month (or year) than t
EarlierMonth(last, t) ==
  \/ getFullYear(last) < getFullYear(t)
  \/ getFullYear(last) = getFullYear(t) /\ getMonth(last) < getMonth(t)

\* C2: a search that finds last_reset in an earlier calendar month than now is
\* never refused for quota, and when it succeeds the stored count is 1 and
\* last_reset lies in the current month.
C2_SearchResetsFirst ==
  (HandledFor("search") /\ EarlierMonth(pre[req.email].last_reset, req.at)) =>
    /\ resp.status # 429
    /\ (resp.status = 200) =>
         /\ kv[req.email].monthly_searches = 1
         /\ ~EarlierMonth(kv[req.email].last_reset, req.at)

\* C3: a register request for an email that has an account writes nothing, and
\* when it carries email and password it is answered 400 "User already exists".
C3_DuplicateRegister ==
  (req.action = "register" /\ req.email \in DOMAIN pre) =>
    /\ kv = pre
    /\ resp.status = 400
    /\ Handled("register") => resp.body = [error |-> "User already exists"]

\* A second registration, under another password, of an account that has
\* searched and been upgraded since it was created.
C3_Witness ==
  /\ HandledFor("register")
  /\ resp.body = [error |-> "User already exists"]
  /\ kv[req.email].password_hash # hashPassword(req.password)
  /\ kv[req.email].monthly_searches > 0
  /\ Tier(kv[req.email]) = "PRO"

\* C4: a login whose email has no account or whose password does not hash to
\* the stored hash is not answered 200 and writes nothing to the store.
C4_FailedLoginWritesNothing ==
  (/\ req.action = "login"
   /\ \/ req.email \notin DOMAIN pre
      \/ pre[req.email].password_hash # hashPassword(req.password)) =>
    /\ resp.status # 200
    /\ kv = pre

\* A wrong password for an account whose counter is due for its monthly reset.
C4_Witness ==
  /\ HandledFor("login")
  /\ resp.status = 401
  /\ pre[req.email].password_hash # hashPassword(req.password)
  /\ pre[req.email].monthly_searches > 0
  /\ EarlierMonth(pre[req.email].last_reset, req.at)

\* What the NIH API did in the last request's one fetch.
RoundTripCompleted == nih[1].outcome.kind = "status" /\ nih[1].outcome.ok

ResultSet ==
  IF "results" \in DOMAIN nih[1].outcome.data
  THEN nih[1].outcome.data.results ELSE <<>>

\* C5: a search whose fetch of the NIH API fails (no response, or a non-2xx
\* one) is answered with an error, writes nothing and calls no notifier; a
\* search whose fetch completes, whatever the result set, raises the stored
\* count by exactly one.
C5_UpstreamFailure ==
  (HandledFor("search") /\ Len(nih) = 1) =>
    IF RoundTripCompleted
    THEN kv[req.email].monthly_searches = pre[req.email].monthly_searches + 1
    ELSE /\ resp.status = 500
         /\ DOMAIN resp.body = {"error"}
         /\ kv = pre
         /\ notifier = <<>>

\* The NIH API answered non-2xx to a search of an account within its quota.
C5_Witness ==
  /\ HandledFor("search")
  /\ Len(nih) = 1
  /\ nih[1].outcome.kind = "status"
  /\ ~nih[1].outcome.ok
  /\ kv[req.email].monthly_searches > 0

\* C6: when sendSearchResultsEmail returns false, the search is still answered
\* 200 with success and a warning, and the stored count is the old count + 1.
C6_NotifierFailure ==
  (HandledFor("search") /\ Len(notifier) = 1 /\ ~notifier[1].returned) =>
    /\ resp.status = 200
    /\ resp.body.success
    /\ "warning" \in DOMAIN resp.body
    /\ kv[req.email].monthly_searches = pre[req.email].monthly_searches + 1
    /\ notifier[1].stored = <<kv[req.email]>>

C6_Witness ==
  /\ HandledFor("search")
  /\ Len(notifier) = 1
  /\ ~notifier[1].returned
  /\ Len(notifier[1].projects) > 0
  /\ pre[req.email].monthly_searches > 0

\* The last request was a checkout-completed event for an account that already
\* records a confirmation with the same ids.
ConfirmedAgain ==
  /\ req.action = "checkout.session.completed"
  /\ req.email \in DOMAIN pre
  /\ pre[req.email].subscription_status = "active"
  /\ {"stripe_customer_id", "subscription_id", "upgraded_at"}
       \subseteq DOMAIN pre[req.email]
  /\ req.ids = <<pre[req.email].stripe_customer_id,
                 pre[req.email].subscription_id>>

\* C7 as claimed: applying a confirmation that is already recorded leaves the
\* stored account as it was.
C7_Idempotent == ConfirmedAgain => kv = pre

\* C7 as amended: applying a confirmation that is already recorded changes
\* nothing of the stored account but upgraded_at, which becomes the time of
\* this application.
C7_IdempotentButUpgradedAt ==
  ConfirmedAgain =>
    kv = [pre EXCEPT ![req.email] =
            [pre[req.email] EXCEPT !.upgraded_at = req.at]]

\* The confirmation is applied again at a later time, to an account that has
\* searched in between.
C7_Witness ==
  /\ ConfirmedAgain
  /\ pre[req.email].upgraded_at < req.at
  /\ pre[req.email].monthly_searches > 0

\* C8: no response carries a password_hash field, neither at the top of its
\* body nor in the user object it returns.
C8_NoPasswordHash ==
  /\ "password_hash" \notin DOMAIN resp.body
  /\ "user" \in DOMAIN resp.body => "password_hash" \notin DOMAIN resp.body.user

\* A search answered with the account's data and the notifier's warning.
C8_Witness ==
  /\ HandledFor("search")
  /\ "user" \in DOMAIN resp.body
  /\ "warning" \in DOMAIN resp.body
  /\ "password_hash" \in DOMAIN kv[req.email]

\* The store without the account of email.
Without(store, email) == [k \in (DOMAIN store) \ {email} |-> store[k]]

\* C9: for every account and every password that does not match it, a login
\* gets the same response (status and body) from the store as it is and from
\* the store without that account.
C9_NoEnumeration ==
  \A email \in DOMAIN kv, password \in Passwords :
    kv[email].password_hash # hashPassword(password) =>
      handleLogin(kv, now, email, password).resp =
        handleLogin(Without(kv, email), now, email, password).resp

\* A login with a wrong password for a known email has just been refused.
C9_Witness ==
  /\ HandledFor("login")
  /\ kv[req.email].password_hash # hashPassword(req.password)
  /\ resp.status = 401

\* C10: a search answered 200 has called the notifier exactly once, after the
\* account with the count raised by one was stored, for the email of the
\* request and with the result set the NIH API returned, whose size the
\* response reports; a search answered otherwise has not called it.
C10_NotifierOnce ==
  req.action = "search" =>
    IF resp.status = 200
    THEN /\ Len(nih) = 1
         /\ Len(notifier) = 1
         /\ notifier[1].to = req.email
         /\ notifier[1].projects = ResultSet
         /\ resp.body.results_count = Len(ResultSet)
         /\ notifier[1].stored = <<kv[req.email]>>
         /\ kv[req.email].monthly_searches = pre[req.email].monthly_searches + 1
    ELSE notifier = <<>>

\* The first search of a FREE account returned 2 results: count 1 and one
\* notification for its email.
C10_Witness ==
  /\ HandledFor("search")
  /\ resp.status = 200
  /\ "warning" \notin DOMAIN resp.body
  /\ resp.body.results_count = 2
  /\ kv[req.email].monthly_searches = 1
  /\ Tier(kv[req.email]) = "FREE"
  /\ Len(notifier) = 1
  /\ notifier[1].to = req.email
  /\ Len(notifier[1].projects) = 2

\* The two webhook events that confirm a payment.
PaymentConfirmations == {"checkout.session.completed", "invoice.payment_succeeded"}

\* C11: an upgrade request, whatever its outcome, leaves every account record
\* as it was, and its response does not depend on what the store holds.
C11_UpgradeLeavesStore ==
  /\ req.action = "upgrade" => kv = pre
  /\ \A email \in Emails, env \in StripeEnvs :
       handleUpgrade(kv, email, env).resp = handleUpgrade(Empty, email, env).resp

\* A FREE account has just been given its checkout URL.
C11_Witness ==
  /\ req.action = "upgrade"
  /\ resp.status = 200
  /\ "checkout_url" \in DOMAIN resp.body
  /\ req.email \in DOMAIN kv
  /\ Tier(kv[req.email]) = "FREE"
  /\ kv[req.email].monthly_searches > 0

\* C12: an account that is PRO and was not PRO before the last request (FREE,
\* or not there) got there by a payment confirmation; an account that was not
\* there before the last request was created by a successful register and is
\* FREE with count 0.
C12_ProOnlyByPayment ==
  /\ \A e \in DOMAIN kv :
       (Tier(kv[e]) = "PRO" /\ (e \notin DOMAIN pre \/ Tier(pre[e]) = "FREE")) =>
         req.action \in PaymentConfirmations
  /\ \A e \in (DOMAIN kv) \ (DOMAIN pre) :
       /\ req.action = "register"
       /\ resp.status = 200
       /\ Tier(kv[e]) = "FREE"
       /\ kv[e].monthly_searches = 0

\* A recurring payment has just made a FREE account PRO.
C12_Witness ==
  /\ req.action = "invoice.payment_succeeded"
  /\ req.email \in DOMAIN pre
  /\ Tier(pre[req.email]) = "FREE"
  /\ Tier(kv[req.email]) = "PRO"

C14_CountMoves ==
  \A e \in (DOMAIN pre) \cap (DOMAIN kv) :
    LET before == pre[e].monthly_searches
        after == kv[e].monthly_searches
    IN /\ after > before =>
            /\ after = before + 1
            /\ req.action = "search"
            /\ resp.status = 200
       /\ after < before =>
            /\ after = 0
            /\ kv[e].last_reset = req.at
            /\ req.action \in {"login", "reset"}
            /\ resp.status = 200
       /\ (req.action \in PaymentConfirmations \/ resp.status # 200) =>
            after = before

\* A recurring payment has just been recorded for an account that has searched.
C14_Witness ==
  /\ req.action = "invoice.payment_succeeded"
  /\ req.email \in DOMAIN pre
  /\ pre[req.email].monthly_searches > 0
  /\ "last_payment" \in DOMAIN kv[req.email]
  /\ kv[req.email].last_payment = req.at

\* C15: a payment confirmation whose email has no account writes nothing to
\* the store and is acknowledged with 200 {received: true}.
C15_ConfirmationDropped ==
  (req.action \in PaymentConfirmations /\ req.email \notin DOMAIN pre) =>
    /\ kv = pre
    /\ resp = Json(200, [received |-> TRUE])

\* A checkout confirmation has just arrived for an email that never registered.
C15_Witness ==
  /\ req.action = "checkout.session.completed"
  /\ req.email \in Emails
  /\ req.email \notin DOMAIN kv
  /\ resp.status = 200

\* C16: a reset for an email without an account is answered 404 and writes
\* nothing; for an account it stores count 0 and last_reset = now and leaves
\* every other field of the record, and every other record, as it was.
C16_Reset ==
  req.action = "reset" =>
    IF req.email \notin DOMAIN pre
    THEN resp.status = 404 /\ kv = pre
    ELSE /\ resp.status = 200
         /\ DOMAIN kv = DOMAIN pre
         /\ \A e \in (DOMAIN kv) \ {req.email} : kv[e] = pre[e]
         /\ kv[req.email].monthly_searches = 0
         /\ kv[req.email].last_reset = req.at
         /\ DOMAIN kv[req.email] = DOMAIN pre[req.email]
         /\ \A f \in (DOMAIN pre[req.email]) \ {"monthly_searches", "last_reset"} :
              kv[req.email][f] = pre[req.email][f]

\* A PRO account that has searched is reset in a later month.
C16_Witness ==
  /\ req.action = "reset"
  /\ req.email \in DOMAIN pre
  /\ Tier(pre[req.email]) = "PRO"
  /\ "stripe_customer_id" \in DOMAIN pre[req.email]
  /\ pre[req.email].monthly_searches > 0
  /\ pre[req.email].last_reset < req.at
  /\ kv[req.email].monthly_searches = 0

\* needs_reset of the quota policy: now lies in another calendar month or year
\* than last_reset_at.
needs_reset(t, last_reset_at) ==
  \/ getFullYear(t) # getFullYear(last_reset_at)
  \/ getMonth(t) # getMonth(last_reset_at)

\* C20: a login answered 200 whose now differs from last_reset in month or year
\* stores count 0 and last_reset = now and changes nothing else; when month and
\* year match it leaves the store as it was and returns the stored count.
C20_LoginWrites ==
  (HandledFor("login") /\ resp.status = 200) =>
    IF needs_reset(req.at, pre[req.email].last_reset)
    THEN kv = [pre EXCEPT ![req.email] =
                 [pre[req.email] EXCEPT !.monthly_searches = 0,
                                        !.last_reset = req.at]]
    ELSE /\ kv = pre
         /\ resp.body.user.monthly_searches = pre[req.email].monthly_searches

\* A login in the month of the last reset, by an account that has searched.
C20_Witness ==
  /\ HandledFor("login")
  /\ resp.status = 200
  /\ ~needs_reset(req.at, pre[req.email].last_reset)
  /\ pre[req.email].monthly_searches > 0
  /\ resp.body.user.monthly_searches = pre[req.email].monthly_searches

\* ------------------------------------------------- two requests side by side
Done(i) == inflight[i].stage = "done"

BothDone == \A i \in Invocations : Done(i)

\* Both requests were between their get and their put at the same time.
Overlapped == \A i \in Invocations : Done(i) /\ inflight[i].overlap

Succeeded(i) == inflight[i].resp.status = 200

\* Both requests were this action for the account of e, and both are finished.
Pair(action, e) ==
  /\ BothDone
  /\ e \in DOMAIN pre
  /\ \A i \in Invocations :
       inflight[i].request.action = action /\ inflight[i].request.email = e

Successes == Cardinality({i \in Invocations : Succeeded(i)})

\* C17: of two searches for one account, each one answered 200 has called the
\* notifier once. When their get/put steps overlapped, the stored count has
\* risen by 1 at most, however many succeeded; when they ran one after the
\* other, it has risen by the number that succeeded and the successful
\* searches of the period (those before plus these) stay within the tier limit.
C17_LostUpdate ==
  \A e \in Emails :
    Pair("search", e) =>
      /\ \A i \in Invocations : Succeeded(i) => Len(inflight[i].notifier) = 1
      /\ IF Overlapped
         THEN kv[e].monthly_searches =
                pre[e].monthly_searches + (IF Successes = 0 THEN 0 ELSE 1)
         ELSE /\ kv[e].monthly_searches = pre[e].monthly_searches + Successes
              /\ pre[e].monthly_searches + Successes
                   <= max_searches_per_month(Tier(pre[e]))

\* Two overlapping searches of a FREE account with one search left: both are
\* answered 200 and notified, the count stands at the limit, and the period
\* has seen one successful search more than the limit.
C17_Witness ==
  \E e \in Emails :
    /\ Pair("search", e)
    /\ Overlapped
    /\ \A i \in Invocations :
         /\ Succeeded(i)
         /\ Len(inflight[i].notifier) = 1
         /\ inflight[i].notifier[1].returned
    /\ Tier(pre[e]) = "FREE"
    /\ kv[e].monthly_searches = pre[e].monthly_searches + 1
    /\ kv[e].monthly_searches = FreeMaxSearches
    /\ pre[e].monthly_searches + Successes > max_searches_per_month("FREE")

\* A checkout confirmation w and a user request u (a search, a reset or a
\* login that rolls the counter over) for the account of e overlapped at their
\* get/put steps; both are finished and both wrote.
Raced(w, u, e) ==
  /\ BothDone
  /\ Overlapped
  /\ e \in DOMAIN pre
  /\ inflight[w].request.action = "checkout.session.completed"
  /\ inflight[w].request.email = e
  /\ inflight[u].request.action \in {"search", "reset", "login"}
  /\ inflight[u].request.email = e
  /\ Succeeded(u)
  /\ inflight[u].put # <<>>

\* The account of e is PRO with the ids of the confirmation w.
ProWithIds(w, e) ==
  /\ Tier(kv[e]) = "PRO"
  /\ {"stripe_customer_id", "subscription_id"} \subseteq DOMAIN kv[e]
  /\ inflight[w].request.ids = <<kv[e].stripe_customer_id, kv[e].subscription_id>>

\* The count of e is the one the user request u leaves: one more than it
\* read for a search, 0 for a reset or a rollover.
CountReflects(u, e) ==
  IF inflight[u].request.action = "search"
  THEN kv[e].monthly_searches = pre[e].monthly_searches + 1
  ELSE kv[e].monthly_searches = 0

PaymentFields == {"subscription_status", "stripe_customer_id", "subscription_id",
                  "upgraded_at"}

\* C18 as claimed: after the overlap the account is PRO with the recorded ids
\* and its count is the one the user request leaves.
C18_NeitherLost ==
  \A w, u \in Invocations, e \in Emails :
    Raced(w, u, e) => (ProWithIds(w, e) /\ CountReflects(u, e))

\* C18 as amended: after the overlap the account is the record of whichever
\* request put last, computed from what that request read: either PRO with the
\* recorded ids and the count and last_reset the webhook read, or the count of
\* the user request with the tier and payment fields the user request read.
C18_LastWriterWins ==
  \A w, u \in Invocations, e \in Emails :
    Raced(w, u, e) =>
      \/ /\ kv[e] = inflight[w].put[1]
         /\ ProWithIds(w, e)
         /\ kv[e].monthly_searches = pre[e].monthly_searches
         /\ kv[e].last_reset = pre[e].last_reset
      \/ /\ kv[e] = inflight[u].put[1]
         /\ CountReflects(u, e)
         /\ \A f \in PaymentFields :
              /\ f \in DOMAIN kv[e] <=> f \in DOMAIN pre[e]
              /\ f \in DOMAIN kv[e] => kv[e][f] = pre[e][f]

\* A confirmation and a search of a FREE account overlapped and the webhook
\* put last: the account is PRO and the search, answered 200, is not counted.
C18_Witness ==
  \E w, u \in Invocations, e \in Emails :
    /\ Raced(w, u, e)
    /\ inflight[u].request.action = "search"
    /\ Tier(pre[e]) = "FREE"
    /\ ProWithIds(w, e)
    /\ kv[e].monthly_searches = pre[e].monthly_searches

\* C19: of two register requests for one email with different passwords whose
\* existence check and put overlapped, at most one is answered 200, and the
\* stored hash is that of the password of the one answered 200.
C19_OneRegistration ==
  \A i, j \in Invocations :
    (/\ BothDone
     /\ Overlapped
     /\ inflight[i].request.action = "register"
     /\ inflight[j].request.action = "register"
     /\ inflight[i].request.email = inflight[j].request.email
     /\ inflight[i].request.password # inflight[j].request.password) =>
      /\ ~(Succeeded(i) /\ Succeeded(j))
      /\ Succeeded(i) =>
           kv[inflight[i].request.email].password_hash =
             hashPassword(inflight[i].request.password)

\* max_results_per_search of the quota policy.
max_results_per_search(tier) == IF tier = "PRO" THEN 10 ELSE 3

\* C21: the payload of every fetch a search makes has limit 3 when the account
\* it read is FREE and 10 when it is PRO, offset 0 and sort project_start_date
\* descending, whatever limit, offset and sort the body or its criteria carry.
C21_FixedPayload ==
  (req.action = "search" /\ Len(nih) = 1) =>
    /\ nih[1].payload.limit = max_results_per_search(Tier(pre[req.email]))
    /\ nih[1].payload.offset = 0
    /\ nih[1].payload.sort_field = "project_start_date"
    /\ nih[1].payload.sort_order = "desc"

\* A PRO account has searched with a body asking for limit 100, offset 25 and
\* another sort: the payload has limit 10.
C21_Witness ==
  /\ req.action = "search"
  /\ Len(nih) = 1
  /\ {"limit", "offset", "sort_field", "sort_order"} \subseteq DOMAIN req.body
  /\ req.body.limit = 100
  /\ req.body.sort_order = "asc"
  /\ Tier(pre[req.email]) = "PRO"
  /\ nih[1].payload.limit = 10
  /\ resp.status = 200

\* C22: the count of every stored account is between 0 and the limit of its
\* tier: at most 5 while FREE, at most 15 while PRO.
C22_CountWithinLimit ==
  \A e \in DOMAIN kv :
    /\ 0 <= kv[e].monthly_searches
    /\ kv[e].monthly_searches <= max_searches_per_month(Tier(kv[e]))

\* A PRO account has just used its last search of the month.
C22_Witness ==
  /\ HandledFor("search")
  /\ resp.status = 200
  /\ Tier(kv[req.email]) = "PRO"
  /\ kv[req.email].monthly_searches = ProMaxSearches
  /\ pre[req.email].monthly_searches = ProMaxSearches - 1
====
